---- MODULE Spec2Model ----
\* Model of the NFC assigned-key emulator (nfc-assigned-key-emulator-win.js):
\* the tag -> key mapping store, the interactive assignment prompt and the
\* key dispatch of the reader's "card" handler.
\*
\* JavaScript strings are sequences of one-character strings, so that trim()
\* and toLowerCase() are computed and not assumed.  The empty sequence stands
\* for every falsy string-like value (undefined, null, "").
EXTENDS Integers, Sequences, FiniteSets, TLC

VARIABLES
    TAG_KEY_MAPPING,    \* the in-memory table (line 13)
    file,               \* content of tag-key-mappings.json on disk
    loadStatus,         \* which branch of loadMappings ran at startup
    events,             \* the "card" handler invocations of this process
    questionCallback,   \* index of the event whose rl.question callback is pending, 0 if none
    lastCard,           \* the card of the latest "card" event, NoCard before the first
    running,            \* the process is alive
    tempScripts         \* the nfc-sendkey-*.ps1 files in os.tmpdir(): name stamp -> SendKeys code

vars == <<TAG_KEY_MAPPING, file, loadStatus, events, questionCallback, lastCard, running,
          tempScripts>>

\* ---------------------------------------------------------------- bounds

\* "card" events one process run receives in the model
MaxEvents == 2

\* ---------------------------------------------------------------- strings

Undefined == <<>>

UpperLetters == <<"A","B","C","D","E","F","G","H","I","J","K","L","M",
                  "N","O","P","Q","R","S","T","U","V","W","X","Y","Z">>

LowerLetters == <<"a","b","c","d","e","f","g","h","i","j","k","l","m",
                  "n","o","p","q","r","s","t","u","v","w","x","y","z">>

DigitChars == <<"0","1","2","3","4","5","6","7","8","9">>

HexDigits == <<"0","1","2","3","4","5","6","7","8","9","a","b","c","d","e","f">>

WhiteSpace == {" ", "\t"}

LowerChar(c) ==
    IF \E i \in 1..Len(UpperLetters) : UpperLetters[i] = c
    THEN LowerLetters[CHOOSE i \in 1..Len(UpperLetters) : UpperLetters[i] = c]
    ELSE c

UpperChar(c) ==
    IF \E i \in 1..Len(LowerLetters) : LowerLetters[i] = c
    THEN UpperLetters[CHOOSE i \in 1..Len(LowerLetters) : LowerLetters[i] = c]
    ELSE c

\* A variant that leaves the letters' case as typed
toLowerCase_AsTyped(s) == s

\* String.prototype.toLowerCase
toLowerCase(s) == [i \in 1..Len(s) |-> LowerChar(s[i])]

\* String.prototype.trim
trim(s) ==
    LET inked == {i \in 1..Len(s) : s[i] \notin WhiteSpace}
    IN  IF inked = {} THEN <<>>
        ELSE LET lo == CHOOSE i \in inked : \A j \in inked : i <= j
                 hi == CHOOSE i \in inked : \A j \in inked : j <= i
             IN  SubSeq(s, lo, hi)

\* Buffer.prototype.toString('hex'): two lowercase hex digits per byte
RECURSIVE toHex(_)
toHex(bytes) ==
    IF bytes = <<>> THEN <<>>
    ELSE <<HexDigits[(bytes[1] \div 16) + 1], HexDigits[(bytes[1] % 16) + 1]>>
         \o toHex(Tail(bytes))

\* ---------------------------------------------------------------- action registry

NamedKeys ==
     { <<<<"l", "e", "f", "t">>, "{LEFT}">>,
       <<<<"r", "i", "g", "h", "t">>, "{RIGHT}">>,
       <<<<"d", "o", "w", "n">>, "{DOWN}">>,
       <<<<"u", "p">>, "{UP}">>,
       <<<<"e", "n", "t", "e", "r">>, "{ENTER}">>,
       <<<<"r", "e", "t", "u", "r", "n">>, "{ENTER}">>,
       <<<<"s", "p", "a", "c", "e">>, " ">>,
       <<<<"e", "s", "c", "a", "p", "e">>, "{ESC}">>,
       <<<<"e", "s", "c">>, "{ESC}">>,
       <<<<"t", "a", "b">>, "{TAB}">>,
       <<<<"d", "e", "l", "e", "t", "e">>, "{DELETE}">>,
       <<<<"b", "a", "c", "k", "s", "p", "a", "c", "e">>, "{BS}">>,
       <<<<"h", "o", "m", "e">>, "{HOME}">>,
       <<<<"e", "n", "d">>, "{END}">>,
       <<<<"p", "a", "g", "e", "u", "p">>, "{PGUP}">>,
       <<<<"p", "a", "g", "e", "d", "o", "w", "n">>, "{PGDN}">>,
       <<<<"a", "r", "r", "o", "w", "l", "e", "f", "t">>, "{LEFT}">>,
       <<<<"a", "r", "r", "o", "w", "r", "i", "g", "h", "t">>, "{RIGHT}">>,
       <<<<"a", "r", "r", "o", "w", "d", "o", "w", "n">>, "{DOWN}">>,
       <<<<"a", "r", "r", "o", "w", "u", "p">>, "{UP}">> }

\* The own properties of the KEY_MAPPINGS object literal: the named keys, the
\* digits (sent as they are) and the letters (sent in upper case).
KEY_MAPPINGS ==
    [n \in {p[1] : p \in NamedKeys}
           \cup {<<DigitChars[i]>> : i \in 1..Len(DigitChars)}
           \cup {<<LowerLetters[i]>> : i \in 1..Len(LowerLetters)} |->
        IF \E p \in NamedKeys : p[1] = n
        THEN (CHOOSE p \in NamedKeys : p[1] = n)[2]
        ELSE UpperChar(n[1])]

\* The property names KEY_MAPPINGS inherits from Object.prototype.  The `in`
\* operator of lines 104 and 174 walks the prototype chain, so these names
\* pass it although the literal does not declare them.
ObjectPrototypeKeys ==
    { <<"c","o","n","s","t","r","u","c","t","o","r">>,
      <<"_","_","p","r","o","t","o","_","_">>,
      <<"t","o","S","t","r","i","n","g">>,
      <<"v","a","l","u","e","O","f">>,
      <<"h","a","s","O","w","n","P","r","o","p","e","r","t","y">> }

\* `name in KEY_MAPPINGS`
InKeyMappings(name) == name \in DOMAIN KEY_MAPPINGS \/ name \in ObjectPrototypeKeys

\* KEY_MAPPINGS[name]: a SendKeys string for a declared name; an inherited
\* property is a function or object, never a string.
NotAString == "[inherited Object.prototype member]"

KeyMappingsGet(name) ==
    IF name \in DOMAIN KEY_MAPPINGS THEN KEY_MAPPINGS[name] ELSE NotAString

\* ---------------------------------------------------------------- mapping store

\* A JavaScript value held by TAG_KEY_MAPPING: null, or an object whose own
\* properties are kept in property order as <<key, value>> pairs.
NullValue == [kind |-> "null", props |-> <<>>]

EmptyObject == [kind |-> "object", props |-> <<>>]

HasOwn(obj, key) == \E i \in 1..Len(obj.props) : obj.props[i][1] = key

\* obj[key] on an object: the property's value, or undefined
Get(obj, key) ==
    IF HasOwn(obj, key)
    THEN obj.props[CHOOSE i \in 1..Len(obj.props) : obj.props[i][1] = key][2]
    ELSE Undefined

\* obj[key] = value: an existing property keeps its place, a new one is appended
Put(obj, key, value) ==
    IF HasOwn(obj, key)
    THEN [obj EXCEPT !.props =
            [i \in 1..Len(obj.props) |->
                IF obj.props[i][1] = key THEN <<key, value>> ELSE obj.props[i]]]
    ELSE [obj EXCEPT !.props = Append(obj.props, <<key, value>>)]

\* The mappings file: absent, text that is no JSON, the JSON text `null`, or a
\* JSON object text, whose members are listed as written (a hand-edited file
\* may repeat a key).
AbsentFile == [kind |-> "absent", props |-> <<>>]

GarbageFile == [kind |-> "garbage", props |-> <<>>]

\* JSON.parse of a JSON text: members are assigned in order, so a repeated key
\* keeps its first place and its last value.
RECURSIVE ParseMembers(_, _)
ParseMembers(members, acc) ==
    IF members = <<>> THEN acc
    ELSE ParseMembers(Tail(members), Put(acc, members[1][1], members[1][2]))

JSONparse(f) ==
    IF f.kind = "null" THEN NullValue ELSE ParseMembers(f.props, EmptyObject)

\* JSON.stringify(value, null, 2): the own properties in property order
JSONstringify(value) == [kind |-> value.kind, props |-> value.props]

\* fs.writeFileSync(MAPPINGS_FILE, text): it succeeds, or it throws and leaves
\* the file as it was ("failed", e.g. EACCES at open) or truncated ("torn",
\* e.g. ENOSPC after the open truncated it).
WriteOutcomes == {"ok", "failed", "torn"}

writeFileSync(f, text, outcome) ==
    CASE outcome = "ok" -> text
      [] outcome = "failed" -> f
      [] outcome = "torn" -> GarbageFile

\* saveMappings(): the file after the call; a write error is caught and logged
saveMappings(table, f, outcome) == writeFileSync(f, JSONstringify(table), outcome)

\* loadMappings() on the table `table`: the table, the file and the branch taken
loadMappings(table, f, outcome) ==
    IF f.kind = "absent"
    THEN [table |-> table, file |-> saveMappings(table, f, outcome), status |-> "created"]
    ELSE IF f.kind = "garbage"
    THEN [table |-> table, file |-> f, status |-> "failed"]
    ELSE IF JSONparse(f).kind = "null"
    THEN [table |-> JSONparse(f), file |-> f, status |-> "failed"]
    ELSE [table |-> JSONparse(f), file |-> f, status |-> "loaded"]

\* ---------------------------------------------------------------- inputs

T1 == <<"0", "4", "a", "2">>

T2 == <<"1", "b", "3", "f">>

Card(type, uid, hasData, data) ==
    [type |-> type, uid |-> uid, hasData |-> hasData, data |-> data]

\* The payloads the reader driver reports: a type, a uid string (or none) and
\* a data buffer (or none; an empty buffer is an object, hence truthy).
Cards ==
    { Card("TAG_ISO_14443_3", T1, FALSE, <<>>),
      Card("TAG_ISO_14443_3", T2, FALSE, <<>>),
      Card("TAG_ISO_14443_3", Undefined, FALSE, <<>>),
      Card("TAG_ISO_14443_4", Undefined, TRUE, <<4, 162>>),
      Card("TAG_ISO_14443_4", Undefined, TRUE, <<>>),
      Card("TAG_ISO_14443_4", Undefined, FALSE, <<>>),
      Card("TAG_UNKNOWN", T1, FALSE, <<>>) }

NoCard == Card("", Undefined, FALSE, <<>>)

\* The lines the operator types at the prompt
Answers ==
    { <<>>,
      <<" ">>,
      <<"u", "p">>,
      <<" ", "R", "i", "g", "h", "t", " ">>,
      <<"b", "a", "n", "a", "n", "a">>,
      <<"c", "o", "n", "s", "t", "r", "u", "c", "t", "o", "r">> }

\* What tag-key-mappings.json holds when the process starts.  A file the
\* program wrote holds registry names; a file edited by hand, or written by a
\* build with another registry, may hold any string.
InitialFiles ==
    { AbsentFile,
      GarbageFile,
      [kind |-> "null", props |-> <<>>],
      [kind |-> "object", props |-> <<>>],
      [kind |-> "object", props |-> << <<T1, <<"r", "i", "g", "h", "t">> >> >>],
      [kind |-> "object", props |-> << <<T1, <<"U", "p">> >> >>],
      [kind |-> "object", props |-> << <<T2, <<"b", "a", "n", "a", "n", "a">> >> >>],
      [kind |-> "object", props |-> << <<T1, <<"u", "p">> >>, <<T1, <<"t", "a", "b">> >> >>] }

\* ---------------------------------------------------------------- the "card" handler

\* A variant that takes the uid of a card of any type
ExtractUID_AnyType(card) ==
    IF card.uid # Undefined THEN card.uid
    ELSE IF card.type = "TAG_ISO_14443_4" /\ card.hasData THEN toHex(card.data)
    ELSE Undefined

\* Lines 145-153: the tag identifier of a card, or nothing
ExtractUID(card) ==
    IF card.type = "TAG_ISO_14443_3" /\ card.uid # Undefined THEN card.uid
    ELSE IF card.type = "TAG_ISO_14443_4" /\ card.hasData THEN toHex(card.data)
    ELSE Undefined

\* A variant that takes an empty line for the Enter key
askForKeyAssignment_EmptyIsEnter(answer) ==
    LET keyName == toLowerCase(trim(answer))
    IN  IF keyName = <<>> THEN <<"e", "n", "t", "e", "r">> ELSE keyName

\* The value askForKeyAssignment's promise resolves to for a typed line:
\* null (the empty sequence) for an empty line, else the trimmed lowercased line
askForKeyAssignment(answer) ==
    LET keyName == toLowerCase(trim(answer))
    IN  IF keyName = <<>> THEN Undefined ELSE keyName

\* Lines 173-174: the validation of the assignment branch
IsValidKey(keyName) == InKeyMappings(trim(toLowerCase(keyName)))

\* A variant that prompts on every tap
NeedsAssignment_Always(assignedKey) == TRUE

\* Line 167: `!assignedKey`, the lookup missed
NeedsAssignment(assignedKey) == assignedKey = Undefined

\* A variant that writes the file before it updates the table
AssignAndSave_SaveFirst(table, f, tagUID, validKeyName, outcome) ==
    [table |-> Put(table, tagUID, validKeyName), file |-> saveMappings(table, f, outcome)]

\* A variant that replaces the table by one holding the new entry alone
AssignAndSave_FreshTable(table, f, tagUID, validKeyName, outcome) ==
    LET assigned == Put(EmptyObject, tagUID, validKeyName)
    IN  [table |-> assigned, file |-> saveMappings(assigned, f, outcome)]

\* A variant that writes the new entry alone to the file
AssignAndSave_WriteEntryOnly(table, f, tagUID, validKeyName, outcome) ==
    [table |-> Put(table, tagUID, validKeyName),
     file |-> saveMappings(Put(EmptyObject, tagUID, validKeyName), f, outcome)]

\* A variant that takes the entry back when the write fails
AssignAndSave_Rollback(table, f, tagUID, validKeyName, outcome) ==
    LET assigned == Put(table, tagUID, validKeyName)
    IN  [table |-> IF outcome = "ok" THEN assigned ELSE table,
         file |-> saveMappings(assigned, f, outcome)]

\* Lines 184-185: TAG_KEY_MAPPING[tagUID] = validKeyName; saveMappings()
AssignAndSave(table, f, tagUID, validKeyName, outcome) ==
    LET assigned == Put(table, tagUID, validKeyName)
    IN  [table |-> assigned, file |-> saveMappings(assigned, f, outcome)]

\* pressKey up to the exec call: the promise is rejected at once for a name
\* the `in` test refuses, for a descriptor that has no replace method and for
\* a temp script that cannot be written; otherwise PowerShell is started with
\* the SendKeys code of the normalized name.
pressKey(keyName, tmpOk) ==
    LET normalizedKey == trim(toLowerCase(keyName))
        sendKeyCode == KeyMappingsGet(normalizedKey)
    IN  IF ~InKeyMappings(normalizedKey)
        THEN [started |-> FALSE, code |-> "", error |-> "Unknown key"]
        ELSE IF sendKeyCode = NotAString
        THEN [started |-> FALSE, code |-> "", error |-> "TypeError"]
        ELSE IF ~tmpOk
        THEN [started |-> FALSE, code |-> "", error |-> "temp script"]
        ELSE [started |-> TRUE, code |-> sendKeyCode, error |-> ""]

\* One invocation of the handler: the identifier, where the handler stands,
\* the assigned key, the line the operator typed, how the save went, the
\* SendKeys code handed to PowerShell and the error the catch block reported.
Event(uid, st) ==
    [uid |-> uid, st |-> st, key |-> Undefined, answer |-> Undefined,
     prompted |-> FALSE, saved |-> "none", pressCalls |-> 0,
     injected |-> "", error |-> ""]

\* A variant that stores the key and leaves the key press to the next tap
Dispatch_OnNextTap(ev, assignedKey, tmpOk) ==
    [ev EXCEPT !.key = assignedKey, !.st = "dispatched"]

\* Lines 194-202 up to the await: the event after pressKey(assignedKey) was called
Dispatch(ev, assignedKey, tmpOk) ==
    LET r == pressKey(assignedKey, tmpOk)
    IN  [ev EXCEPT !.key = assignedKey,
                   !.pressCalls = @ + 1,
                   !.st = IF r.started THEN "pressing" ELSE "dispatchFailed",
                   !.injected = r.code,
                   !.error = r.error]

Init ==
    \E f \in InitialFiles, outcome \in WriteOutcomes :
        LET l == loadMappings(EmptyObject, f, outcome)
        IN  /\ TAG_KEY_MAPPING = l.table
            /\ file = l.file
            /\ loadStatus = l.status
            /\ events = <<>>
            /\ questionCallback = 0
            /\ lastCard = NoCard
            /\ running = TRUE
            /\ tempScripts = <<>>

\* reader.on("card") from its start to its first await or return
CardDetected(card, tmpOk, survives) ==
    /\ running
    /\ Len(events) < MaxEvents
    /\ LET tagUID == ExtractUID(card)
           n == Len(events) + 1
       IN  IF tagUID = Undefined
           THEN \* line 159: no identifier, return
                /\ events' = Append(events, Event(Undefined, "noUid"))
                /\ UNCHANGED <<questionCallback, running>>
           ELSE IF TAG_KEY_MAPPING.kind = "null"
           THEN \* line 165 throws a TypeError: the async handler's promise is
                \* rejected with nobody to handle it, which ends the process
                \* or only warns, depending on the runtime's version
                /\ events' = Append(events, Event(tagUID, "crashed"))
                /\ running' = survives
                /\ UNCHANGED questionCallback
           ELSE IF ~NeedsAssignment(Get(TAG_KEY_MAPPING, tagUID))
           THEN \* lookup hit: straight to the key press
                /\ events' = Append(events,
                        Dispatch(Event(tagUID, "hit"), Get(TAG_KEY_MAPPING, tagUID), tmpOk))
                /\ UNCHANGED <<questionCallback, running>>
           ELSE \* lookup miss: rl.question; readline keeps one callback and
                \* drops the callback of a question asked while one is pending
                /\ events' = Append(events,
                        [Event(tagUID, "awaiting") EXCEPT !.prompted = TRUE])
                /\ questionCallback' = IF questionCallback = 0 THEN n ELSE questionCallback
                /\ UNCHANGED running
    /\ lastCard' = card
    /\ UNCHANGED <<TAG_KEY_MAPPING, file, loadStatus>>

\* The operator's line arrives: the pending question callback resolves the
\* promise and the handler runs on from line 171 to its next await or return
Answer(answer, outcome, tmpOk) ==
    /\ running
    /\ questionCallback # 0
    /\ LET e == questionCallback
           ev == [events[e] EXCEPT !.answer = answer]
           keyName == askForKeyAssignment(answer)
       IN  IF keyName = Undefined
           THEN /\ events' = [events EXCEPT ![e] = [ev EXCEPT !.st = "skipped"]]
                /\ UNCHANGED <<TAG_KEY_MAPPING, file>>
           ELSE IF ~IsValidKey(keyName)
           THEN /\ events' = [events EXCEPT ![e] = [ev EXCEPT !.st = "rejected"]]
                /\ UNCHANGED <<TAG_KEY_MAPPING, file>>
           ELSE LET validKeyName == trim(toLowerCase(keyName))
                    s == AssignAndSave(TAG_KEY_MAPPING, file, ev.uid, validKeyName, outcome)
                IN  /\ TAG_KEY_MAPPING' = s.table
                    /\ file' = s.file
                    /\ events' = [events EXCEPT ![e] =
                            Dispatch([ev EXCEPT !.saved = IF outcome = "ok" THEN "ok" ELSE "failed"],
                                     validKeyName, tmpOk)]
    /\ questionCallback' = 0
    /\ UNCHANGED <<loadStatus, lastCard, running>>

\* A variant whose failed key press ends the process
ExecDone_ExitOnError(e, ok) ==
    /\ running
    /\ e \in 1..Len(events)
    /\ events[e].st = "pressing"
    /\ events' = [events EXCEPT ![e] =
            IF ok THEN [@ EXCEPT !.st = "dispatched"]
            ELSE [@ EXCEPT !.st = "dispatchFailed", !.error = "exec error"]]
    /\ running' = ok
    /\ UNCHANGED <<TAG_KEY_MAPPING, file, loadStatus, questionCallback, lastCard>>

\* The exec callback of a started PowerShell: lines 119-134, then the rest of
\* the handler's try block or its catch block
ExecDone(e, ok) ==
    /\ running
    /\ e \in 1..Len(events)
    /\ events[e].st = "pressing"
    /\ events' = [events EXCEPT ![e] =
            IF ok THEN [@ EXCEPT !.st = "dispatched"]
            ELSE [@ EXCEPT !.st = "dispatchFailed", !.error = "exec error"]]
    /\ UNCHANGED <<TAG_KEY_MAPPING, file, loadStatus, questionCallback, lastCard, running>>

\* The process ends (SIGINT, lines 230-234, or the crash above) and is started
\* again: a fresh table, loadMappings (line 223), no handler in flight
Restart(outcome) ==
    LET l == loadMappings(EmptyObject, file, outcome)
    IN  /\ TAG_KEY_MAPPING' = l.table
        /\ file' = l.file
        /\ loadStatus' = l.status
        /\ events' = <<>>
        /\ questionCallback' = 0
        /\ lastCard' = NoCard
        /\ running' = TRUE

\* The steps of the assigned-key emulator.  The temp script of a key press is
\* left out of them (a press is a call and a completion, its script write may
\* fail); the specification TempSpec below follows the scripts themselves.
Next ==
    \/ \E card \in Cards, tmpOk \in BOOLEAN, survives \in BOOLEAN :
          CardDetected(card, tmpOk, survives) /\ UNCHANGED tempScripts
    \/ \E answer \in Answers, outcome \in WriteOutcomes, tmpOk \in BOOLEAN :
          Answer(answer, outcome, tmpOk) /\ UNCHANGED tempScripts
    \/ \E e \in 1..MaxEvents, ok \in BOOLEAN : ExecDone(e, ok) /\ UNCHANGED tempScripts
    \/ \E outcome \in WriteOutcomes : Restart(outcome) /\ UNCHANGED tempScripts

Spec == Init /\ [][Next]_vars

\* The operator answers a pending question and a started PowerShell returns
FairSpec ==
    /\ Spec
    /\ WF_vars(\E answer \in Answers, outcome \in WriteOutcomes, tmpOk \in BOOLEAN :
                  Answer(answer, outcome, tmpOk) /\ UNCHANGED tempScripts)
    /\ WF_vars(\E e \in 1..MaxEvents, ok \in BOOLEAN :
                  ExecDone(e, ok) /\ UNCHANGED tempScripts)

\* ---------------------------------------------------------------- the macOS build

\* KEY_CODES of the macOS build (README.md): action name -> AppleScript key code
MacKeyCodes ==
    { <<<<"l", "e", "f", "t">>, 123>>,
      <<<<"r", "i", "g", "h", "t">>, 124>>,
      <<<<"d", "o", "w", "n">>, 125>>,
      <<<<"u", "p">>, 126>>,
      <<<<"e", "n", "t", "e", "r">>, 36>>,
      <<<<"r", "e", "t", "u", "r", "n">>, 36>>,
      <<<<"s", "p", "a", "c", "e">>, 49>>,
      <<<<"e", "s", "c", "a", "p", "e">>, 53>>,
      <<<<"t", "a", "b">>, 48>>,
      <<<<"d", "e", "l", "e", "t", "e">>, 51>>,
      <<<<"b", "a", "c", "k", "s", "p", "a", "c", "e">>, 51>>,
      <<<<"h", "o", "m", "e">>, 115>>,
      <<<<"e", "n", "d">>, 119>>,
      <<<<"p", "a", "g", "e", "u", "p">>, 116>>,
      <<<<"p", "a", "g", "e", "d", "o", "w", "n">>, 121>>,
      <<<<"a", "r", "r", "o", "w", "l", "e", "f", "t">>, 123>>,
      <<<<"a", "r", "r", "o", "w", "r", "i", "g", "h", "t">>, 124>>,
      <<<<"a", "r", "r", "o", "w", "d", "o", "w", "n">>, 125>>,
      <<<<"a", "r", "r", "o", "w", "u", "p">>, 126>>,
      <<<<"0">>, 29>>,
      <<<<"1">>, 18>>,
      <<<<"2">>, 19>>,
      <<<<"3">>, 20>>,
      <<<<"4">>, 21>>,
      <<<<"5">>, 23>>,
      <<<<"6">>, 22>>,
      <<<<"7">>, 26>>,
      <<<<"8">>, 28>>,
      <<<<"9">>, 25>>,
      <<<<"a">>, 0>>,
      <<<<"b">>, 11>>,
      <<<<"c">>, 8>>,
      <<<<"d">>, 2>>,
      <<<<"e">>, 14>>,
      <<<<"f">>, 3>>,
      <<<<"g">>, 5>>,
      <<<<"h">>, 4>>,
      <<<<"i">>, 34>>,
      <<<<"j">>, 38>>,
      <<<<"k">>, 40>>,
      <<<<"l">>, 37>>,
      <<<<"m">>, 46>>,
      <<<<"n">>, 45>>,
      <<<<"o">>, 31>>,
      <<<<"p">>, 35>>,
      <<<<"q">>, 12>>,
      <<<<"r">>, 15>>,
      <<<<"s">>, 1>>,
      <<<<"t">>, 17>>,
      <<<<"u">>, 32>>,
      <<<<"v">>, 9>>,
      <<<<"w">>, 13>>,
      <<<<"x">>, 7>>,
      <<<<"y">>, 16>>,
      <<<<"z">>, 6>> }

KEY_CODES ==
    [n \in {p[1] : p \in MacKeyCodes} |-> (CHOOSE p \in MacKeyCodes : p[1] = n)[2]]

\* `normalizedKey in KEY_CODES`
InKeyCodes(name) == name \in DOMAIN KEY_CODES \/ name \in ObjectPrototypeKeys

\* The validation of the macOS build's assignment branch
MacIsValidKey(keyName) == InKeyCodes(trim(toLowerCase(keyName)))

\* The macOS pressKey up to its exec call: KEY_CODES[keyName.toLowerCase()],
\* rejected when undefined; an inherited member is not undefined and ends up
\* in the script text, which osascript refuses.
MacPressKey(keyName) ==
    LET name == toLowerCase(keyName)
    IN  IF name \in DOMAIN KEY_CODES THEN "ok"
        ELSE IF name \in ObjectPrototypeKeys THEN "script error"
        ELSE "Unknown key"

\* The Windows pressKey, in the same terms
WinPressKey(keyName) ==
    LET r == pressKey(keyName, TRUE)
    IN  IF r.started THEN "ok" ELSE r.error

Builds == {"win", "mac"}

\* The validation of a build
ValidIn(build, keyName) ==
    IF build = "win" THEN IsValidKey(keyName) ELSE MacIsValidKey(keyName)

\* The key press of a build
PressIn(build, keyName) ==
    IF build = "win" THEN WinPressKey(keyName) ELSE MacPressKey(keyName)

\* The lines the operator types in the runs that share a mappings file
PortableAnswers ==
    { <<"u", "p">>,
      <<"e", "s", "c">>,
      <<"E", "s", "c", "a", "p", "e">>,
      <<"b", "a", "c", "k", "s", "p", "a", "c", "e">>,
      <<"7">>,
      <<"q">>,
      <<"b", "a", "n", "a", "n", "a">> }

\* What a run of a build did with a tag
PortableEvent(build, uid, answer, key, st, result) ==
    [build |-> build, uid |-> uid, answer |-> answer, key |-> key, st |-> st,
     result |-> result]

\* One mappings file, used by runs of either build in turn; each run loads it
PortableInit ==
    /\ file = [kind |-> "object", props |-> <<>>]
    /\ TAG_KEY_MAPPING = EmptyObject
    /\ loadStatus = "loaded"
    /\ events = <<>>
    /\ questionCallback = 0
    /\ lastCard = NoCard
    /\ running = TRUE
    /\ tempScripts = <<>>

\* A run of `build` loads the file, an unmapped tag is tapped and the operator
\* answers: the handler's assignment branch with that build's registry
PortableAssign(build, tagUID, answer) ==
    /\ Len(events) < MaxEvents
    /\ LET table == loadMappings(EmptyObject, file, "ok").table
           keyName == askForKeyAssignment(answer)
       IN  /\ NeedsAssignment(Get(table, tagUID))
           /\ keyName # Undefined
           /\ IF ValidIn(build, keyName)
              THEN LET validKeyName == trim(toLowerCase(keyName))
                       s == AssignAndSave(table, file, tagUID, validKeyName, "ok")
                   IN  /\ TAG_KEY_MAPPING' = s.table
                       /\ file' = s.file
                       /\ events' = Append(events,
                             PortableEvent(build, tagUID, answer, validKeyName, "assigned",
                                           PressIn(build, validKeyName)))
              ELSE /\ TAG_KEY_MAPPING' = table
                   /\ events' = Append(events,
                         PortableEvent(build, tagUID, answer, Undefined, "rejected", ""))
                   /\ UNCHANGED file
    /\ UNCHANGED <<loadStatus, questionCallback, lastCard, running, tempScripts>>

\* A run of `build` loads the file and a mapped tag is tapped: a lookup hit,
\* dispatched with that build's pressKey
PortableTap(build, tagUID) ==
    /\ Len(events) < MaxEvents
    /\ LET table == loadMappings(EmptyObject, file, "ok").table
           assignedKey == Get(table, tagUID)
       IN  /\ ~NeedsAssignment(assignedKey)
           /\ TAG_KEY_MAPPING' = table
           /\ events' = Append(events,
                 PortableEvent(build, tagUID, Undefined, assignedKey, "hit",
                               PressIn(build, assignedKey)))
    /\ UNCHANGED <<file, loadStatus, questionCallback, lastCard, running, tempScripts>>

PortableNext ==
    \/ \E build \in Builds, tagUID \in {T1, T2}, answer \in PortableAnswers :
          PortableAssign(build, tagUID, answer)
    \/ \E build \in Builds, tagUID \in {T1, T2} : PortableTap(build, tagUID)

PortableSpec == PortableInit /\ [][PortableNext]_vars

\* ---------------------------------------------------------------- the basic emulator

\* nfc-key-emulator.js: every detected card presses the right arrow key

\* The AppleScript key code of pressRightArrow
RightArrowKeyCode == 124

\* One invocation of the basic handler: the card it logged, where it stands,
\* the calls of pressRightArrow, the key code sent and the error reported
BasicEvent(card) ==
    [card |-> card, st |-> "pressing", pressCalls |-> 1,
     keyCode |-> RightArrowKeyCode, error |-> ""]

BasicInit ==
    /\ events = <<>>
    /\ lastCard = NoCard
    /\ running = TRUE
    /\ TAG_KEY_MAPPING = EmptyObject
    /\ file = AbsentFile
    /\ loadStatus = "none"
    /\ questionCallback = 0
    /\ tempScripts = <<>>

\* A variant that presses the key only for cards it can identify
BasicCardDetected_NeedsUID(card) ==
    /\ running
    /\ Len(events) < MaxEvents
    /\ events' = Append(events,
          IF ExtractUID(card) # Undefined THEN BasicEvent(card)
          ELSE [BasicEvent(card) EXCEPT !.st = "noUid", !.pressCalls = 0])
    /\ lastCard' = card
    /\ UNCHANGED <<TAG_KEY_MAPPING, file, loadStatus, questionCallback, running, tempScripts>>

\* reader.on("card") up to `await pressRightArrow()`: osascript is started
BasicCardDetected(card) ==
    /\ running
    /\ Len(events) < MaxEvents
    /\ events' = Append(events, BasicEvent(card))
    /\ lastCard' = card
    /\ UNCHANGED <<TAG_KEY_MAPPING, file, loadStatus, questionCallback, running, tempScripts>>

\* The exec callback of osascript, then the rest of the try block or the catch block
BasicExecDone(e, ok) ==
    /\ running
    /\ e \in 1..Len(events)
    /\ events[e].st = "pressing"
    /\ events' = [events EXCEPT ![e] =
            IF ok THEN [@ EXCEPT !.st = "dispatched"]
            ELSE [@ EXCEPT !.st = "dispatchFailed", !.error = "exec error"]]
    /\ UNCHANGED <<TAG_KEY_MAPPING, file, loadStatus, questionCallback, lastCard, running,
                   tempScripts>>

BasicNext ==
    \/ \E card \in Cards : BasicCardDetected(card)
    \/ \E e \in 1..MaxEvents, ok \in BOOLEAN : BasicExecDone(e, ok)

BasicSpec == BasicInit /\ [][BasicNext]_vars

\* ---------------------------------------------------------------- unreadable file

\* loadMappings() when readFileSync throws (line 18; EACCES, EBUSY): the catch
\* block logs, and the table and the file stay as they were
loadMappingsReadError(table, f) == [table |-> table, file |-> f, status |-> "unreadable"]

\* loadMappings() on a file that may be unreadable
loadMappingsFrom(table, f, outcome, readable) ==
    IF f.kind = "absent" \/ readable
    THEN loadMappings(table, f, outcome)
    ELSE loadMappingsReadError(table, f)

ReadInit ==
    \E f \in InitialFiles, outcome \in WriteOutcomes, readable \in BOOLEAN :
        LET l == loadMappingsFrom(EmptyObject, f, outcome, readable)
        IN  /\ TAG_KEY_MAPPING = l.table
            /\ file = l.file
            /\ loadStatus = l.status
            /\ events = <<>>
            /\ questionCallback = 0
            /\ lastCard = NoCard
            /\ running = TRUE
            /\ tempScripts = <<>>

\* The process ends and is started again, with a file that may be unreadable
ReadRestart(outcome, readable) ==
    LET l == loadMappingsFrom(EmptyObject, file, outcome, readable)
    IN  /\ TAG_KEY_MAPPING' = l.table
        /\ file' = l.file
        /\ loadStatus' = l.status
        /\ events' = <<>>
        /\ questionCallback' = 0
        /\ lastCard' = NoCard
        /\ running' = TRUE

\* The assigned-key emulator with read errors of the mappings file
ReadNext ==
    \/ \E card \in Cards, tmpOk \in BOOLEAN, survives \in BOOLEAN :
          CardDetected(card, tmpOk, survives) /\ UNCHANGED tempScripts
    \/ \E answer \in Answers, outcome \in WriteOutcomes, tmpOk \in BOOLEAN :
          Answer(answer, outcome, tmpOk) /\ UNCHANGED tempScripts
    \/ \E e \in 1..MaxEvents, ok \in BOOLEAN : ExecDone(e, ok) /\ UNCHANGED tempScripts
    \/ \E outcome \in WriteOutcomes, readable \in BOOLEAN :
          ReadRestart(outcome, readable) /\ UNCHANGED tempScripts

ReadSpec == ReadInit /\ [][ReadNext]_vars

\* ---------------------------------------------------------------- card.off

\* What lastCard holds after the reader reported that the card was taken away
CardGone == [type |-> "off", uid |-> Undefined, hasData |-> FALSE, data |-> <<>>]

\* A variant that handles a removal as one more press of the last tap's key
CardOff_PressesAgain ==
    /\ running
    /\ lastCard \notin {NoCard, CardGone}
    /\ events # <<>>
    /\ lastCard' = CardGone
    /\ events' = [events EXCEPT ![Len(events)].pressCalls = @ + 1]
    /\ UNCHANGED <<TAG_KEY_MAPPING, file, loadStatus, questionCallback, running>>

\* reader.on("card.off"), lines 205-207: the handler writes a log line
CardOff ==
    /\ running
    /\ lastCard \notin {NoCard, CardGone}
    /\ lastCard' = CardGone
    /\ UNCHANGED <<TAG_KEY_MAPPING, file, loadStatus, events, questionCallback, running>>

\* The assigned-key emulator with the removals of cards
OffNext ==
    \/ Next
    \/ CardOff /\ UNCHANGED tempScripts

OffSpec == Init /\ [][OffNext]_vars

\* ---------------------------------------------------------------- temp scripts

\* The values Date.now() returns to the calls of pressKey: a call gets the
\* millisecond of the call before it, or a later one
Stamps == 1..MaxEvents

\* No file of that name in os.tmpdir()
NoScript == ""

\* The actions handed to pressKey
PressedKeys == { <<"l", "e", "f", "t">>, <<"r", "i", "g", "h", "t">>, <<"b", "a", "n", "a", "n", "a">> }

\* One call of pressKey: its action, the SendKeys code of its own script, the
\* stamp in its script's name, where it stands and what its PowerShell sent
PressCall(keyName, code, stamp, st) ==
    [keyName |-> keyName, code |-> code, stamp |-> stamp, st |-> st, injected |-> ""]

\* Date.now() at the next call
Now == IF events = <<>> THEN {1} ELSE {t \in Stamps : t >= events[Len(events)].stamp}

TempInit ==
    /\ tempScripts = [t \in Stamps |-> NoScript]
    /\ events = <<>>
    /\ TAG_KEY_MAPPING = EmptyObject
    /\ file = AbsentFile
    /\ loadStatus = "none"
    /\ questionCallback = 0
    /\ lastCard = NoCard
    /\ running = TRUE

\* pressKey(keyName), lines 99-119: the promise is rejected at once, or the
\* script is written under the name of the current millisecond and
\* PowerShell is started on it
PressKeyCalled(keyName, stamp, tmpOk) ==
    /\ Len(events) < MaxEvents
    /\ stamp \in Now
    /\ LET r == pressKey(keyName, tmpOk)
       IN  IF r.started
           THEN /\ tempScripts' = [tempScripts EXCEPT ![stamp] = r.code]
                /\ events' = Append(events, PressCall(keyName, r.code, stamp, "launched"))
           ELSE /\ events' = Append(events, PressCall(keyName, "", stamp, "rejected"))
                /\ UNCHANGED tempScripts
    /\ UNCHANGED <<TAG_KEY_MAPPING, file, loadStatus, questionCallback, lastCard, running>>

\* The PowerShell process of call c, once it is up, opens the file named on
\* its command line and sends what the file holds at that moment
PowerShellRuns(c) ==
    /\ c \in 1..Len(events)
    /\ events[c].st = "launched"
    /\ LET script == tempScripts[events[c].stamp]
       IN  events' = [events EXCEPT ![c] =
                IF script = NoScript
                THEN [@ EXCEPT !.st = "noScript"]
                ELSE [@ EXCEPT !.st = "sent", !.injected = script]]
    /\ UNCHANGED <<tempScripts, TAG_KEY_MAPPING, file, loadStatus, questionCallback, lastCard,
                   running>>

\* The exec callback of call c, lines 119-134: the file of its name is
\* unlinked if it exists (an unlink error is ignored), then the promise is
\* settled.  PowerShell may end with an error before it opened the script.
ExecCallback(c, ok, unlinkOk) ==
    /\ c \in 1..Len(events)
    /\ events[c].st \in {"launched", "sent", "noScript"}
    /\ tempScripts' = IF tempScripts[events[c].stamp] # NoScript /\ unlinkOk
                      THEN [tempScripts EXCEPT ![events[c].stamp] = NoScript]
                      ELSE tempScripts
    /\ events' = [events EXCEPT ![c].st =
            IF @ = "sent" /\ ok THEN "resolved" ELSE "failed"]
    /\ UNCHANGED <<TAG_KEY_MAPPING, file, loadStatus, questionCallback, lastCard, running>>

TempNext ==
    \/ \E keyName \in PressedKeys, stamp \in Stamps, tmpOk \in BOOLEAN :
          PressKeyCalled(keyName, stamp, tmpOk)
    \/ \E c \in 1..MaxEvents : PowerShellRuns(c)
    \/ \E c \in 1..MaxEvents, ok \in BOOLEAN, unlinkOk \in BOOLEAN : ExecCallback(c, ok, unlinkOk)

TempSpec == TempInit /\ [][TempNext]_vars

\* ---------------------------------------------------------------- properties

Tags == {T1, T2}

\* The action names the registry declares
DeclaredNames == DOMAIN KEY_MAPPINGS

\* In this step the operator's line reached the handler of event e
Answered(e) ==
    /\ e \in 1..Len(events)
    /\ e \in 1..Len(events')
    /\ events[e].st = "awaiting"
    /\ events'[e].st # "awaiting"

\* In this step a "card" event arrived
Arrived == Len(events') = Len(events) + 1

\* C1: an operator response whose normalized name is not a declared action
\* name leaves the table and the mappings file as they were, and pressKey is
\* not called for the event.
C1_UnknownNameHasNoEffect ==
    [][\A e \in 1..MaxEvents :
          (Answered(e) /\ trim(toLowerCase(events'[e].answer)) \notin DeclaredNames)
          => /\ TAG_KEY_MAPPING' = TAG_KEY_MAPPING
             /\ file' = file
             /\ events'[e].pressCalls = 0]_vars

\* C2: an empty response to the prompt for an unmapped tag creates no entry
\* for the tag, in the table or in the file, and presses no key.
C2_DeclineCreatesNothing ==
    [][\A e \in 1..MaxEvents :
          (Answered(e) /\ trim(events'[e].answer) = <<>>)
          => /\ TAG_KEY_MAPPING' = TAG_KEY_MAPPING
             /\ file' = file
             /\ Get(TAG_KEY_MAPPING', events'[e].uid) = Undefined
             /\ events'[e].pressCalls = 0
             /\ events'[e].injected = ""]_vars

\* An operator declined with a line of white space, and the tag has no entry
C2_Witness ==
    \E e \in 1..Len(events) :
        /\ events[e].st = "skipped"
        /\ events[e].prompted
        /\ events[e].answer = <<" ">>
        /\ Get(TAG_KEY_MAPPING, events[e].uid) = Undefined

\* C3: after an assignment whose write succeeded, a lookup of the tag returns
\* the assigned action, and so does a lookup in the table loadMappings builds
\* from the mappings file on a fresh table.
C3_AssignmentSurvivesReload ==
    [][\A e \in 1..MaxEvents :
          (Answered(e) /\ events'[e].saved = "ok")
          => /\ events'[e].key = trim(toLowerCase(events'[e].answer))
             /\ Get(TAG_KEY_MAPPING', events'[e].uid) = events'[e].key
             /\ \A outcome \in WriteOutcomes :
                   LET l == loadMappings(EmptyObject, file', outcome)
                   IN  /\ l.status = "loaded"
                       /\ Get(l.table, events'[e].uid) = events'[e].key]_vars

\* A restarted process has loaded an entry that only an assignment can have
\* put in the file (no initial file maps T2 to "up")
C3_Witness ==
    /\ events = <<>>
    /\ loadStatus = "loaded"
    /\ Get(TAG_KEY_MAPPING, T2) = <<"u", "p">>

\* Two events of one process carry the same identifier and both were lookup hits
SameTagHits(e1, e2) ==
    /\ e1 < e2
    /\ events[e1].uid = events[e2].uid
    /\ events[e1].st \in {"pressing", "dispatched", "dispatchFailed"}
    /\ events[e2].st \in {"pressing", "dispatched", "dispatchFailed"}
    /\ ~events[e2].prompted

\* C4: an event for an identifier the table maps is not prompted for and is
\* dispatched with the stored action, and all events of an identifier that
\* were dispatched resolve to one action.
C4_MappedTagResolvesTheSame ==
    /\ [](\A e1, e2 \in 1..Len(events) :
            SameTagHits(e1, e2) => events[e2].key = events[e1].key)
    /\ [][Arrived =>
            LET n == Len(events')
                stored == Get(TAG_KEY_MAPPING, events'[n].uid)
            IN  (events'[n].uid # Undefined /\ stored # Undefined)
                => /\ ~events'[n].prompted
                   /\ events'[n].key = stored
                   /\ events'[n].pressCalls = 1
                   /\ questionCallback' = questionCallback]_vars

\* Two taps of a mapped tag, both dispatched with the stored action
C4_Witness ==
    /\ Len(events) = 2
    /\ SameTagHits(1, 2)
    /\ ~events[1].prompted
    /\ events[1].key = events[2].key
    /\ events[2].st = "dispatched"

\* No key occurs twice among the table's properties
NoDuplicateKeys ==
    \A i, j \in 1..Len(TAG_KEY_MAPPING.props) :
        TAG_KEY_MAPPING.props[i][1] = TAG_KEY_MAPPING.props[j][1] => i = j

\* C5: the table holds at most one action per identifier, and no step of a
\* running process (tap, operator response, end of a key press) changes or
\* removes an entry once it is there.
C5_FirstWriteOnly ==
    /\ []NoDuplicateKeys
    /\ [][(\E outcome \in WriteOutcomes : Restart(outcome))
          \/ \A t \in Tags :
                Get(TAG_KEY_MAPPING, t) # Undefined
                => Get(TAG_KEY_MAPPING', t) = Get(TAG_KEY_MAPPING, t)]_vars

\* One tag was assigned while the table held another, and the other tag's tap
\* was dispatched without a prompt
C5_Witness ==
    /\ Len(TAG_KEY_MAPPING.props) = 2
    /\ Len(events) = 2
    /\ events[1].saved # "none"
    /\ events[2].uid # events[1].uid
    /\ ~events[2].prompted
    /\ events[2].pressCalls = 1

\* C6: every action name handed to pressKey, from a lookup hit or from a
\* fresh assignment, resolves to a key descriptor of the registry.
C6_DispatchAlwaysResolves ==
    \A e \in 1..Len(events) :
        events[e].pressCalls > 0
        => /\ trim(toLowerCase(events[e].key)) \in DeclaredNames
           /\ events[e].error \notin {"Unknown key", "TypeError"}

\* Events other than e, the table, the file and the prompt are as before the step
OthersUntouched(e) ==
    /\ TAG_KEY_MAPPING' = TAG_KEY_MAPPING
    /\ file' = file
    /\ questionCallback' = questionCallback
    /\ \A o \in 1..Len(events) : o # e => (o <= Len(events') /\ events'[o] = events[o])

\* C7: a key press that fails is reported on its event and touches nothing
\* else: table, file and the other events are as before and the process
\* runs on; an event that arrives after a failure is looked up and dispatched
\* as any other.
C7_DispatchFailureIsLocal ==
    /\ [][\A e \in 1..MaxEvents :
            (/\ e \in 1..Len(events')
             /\ events'[e].st = "dispatchFailed"
             /\ (e > Len(events) \/ events[e].st = "pressing"))
            => /\ events'[e].error # ""
               /\ OthersUntouched(e)
               /\ running'
               /\ running]_vars
    /\ [][(Arrived /\ \E e \in 1..Len(events) : events[e].st = "dispatchFailed")
          => LET n == Len(events')
                 stored == Get(TAG_KEY_MAPPING, events'[n].uid)
             IN  /\ events'[n].st # "crashed"
                 /\ (events'[n].uid # Undefined /\ stored # Undefined)
                    => /\ events'[n].key = stored
                       /\ events'[n].pressCalls = 1
                 /\ (events'[n].uid # Undefined /\ stored = Undefined)
                    => events'[n].prompted]_vars

\* PowerShell failed for the first tap and the next tap was dispatched
C7_Witness ==
    /\ Len(events) = 2
    /\ events[1].st = "dispatchFailed"
    /\ events[1].error = "exec error"
    /\ events[2].st = "dispatched"
    /\ running

\* C8: when loadMappings fails, the process goes on with an empty table and
\* handles the taps that follow as lookups in it.
C8_FailedLoadLeavesEmptyTable ==
    loadStatus = "failed"
    => /\ (events = <<>> => TAG_KEY_MAPPING = EmptyObject)
       /\ TAG_KEY_MAPPING.kind = "object"
       /\ \A e \in 1..Len(events) : events[e].st # "crashed"

\* C9: an entry whose write failed stays in the table: the tag resolves to the
\* assigned action and later taps of it are dispatched without a prompt.
C9_FailedSaveKeepsEntry ==
    /\ [](\A e \in 1..Len(events) :
            events[e].saved = "failed"
            => Get(TAG_KEY_MAPPING, events[e].uid) = events[e].key)
    /\ [][\A e \in 1..Len(events) :
            (/\ Arrived
             /\ events[e].saved = "failed"
             /\ events'[Len(events')].uid = events[e].uid)
            => /\ ~events'[Len(events')].prompted
               /\ events'[Len(events')].key = events[e].key
               /\ events'[Len(events')].pressCalls = 1]_vars

\* The write failed for the first tap of a tag, the file has no entry for it,
\* and its second tap was dispatched from the table
C9_Witness ==
    /\ Len(events) = 2
    /\ events[1].saved = "failed"
    /\ events[2].uid = events[1].uid
    /\ ~events[2].prompted
    /\ events[2].st = "dispatched"
    /\ file.kind = "object"
    /\ Get(JSONparse(file), events[1].uid) = Undefined

\* A card of an unknown type, or one without uid or data
Unusable(card) ==
    \/ card.type \notin {"TAG_ISO_14443_3", "TAG_ISO_14443_4"}
    \/ card.type = "TAG_ISO_14443_3" /\ card.uid = Undefined
    \/ card.type = "TAG_ISO_14443_4" /\ (~card.hasData \/ card.data = <<>>)

\* C10: a card that yields no identifier ends its event at once: no lookup,
\* no prompt, no key press, no change of the table or the file, and the
\* process and the other events go on.
C10_NoIdentifierNoEffect ==
    [][(Arrived /\ Unusable(lastCard'))
       => LET n == Len(events')
          IN  /\ events'[n] = Event(Undefined, "noUid")
              /\ OthersUntouched(n)
              /\ running' = running]_vars

\* A card of an unknown type that carries the uid of a mapped tag was
\* skipped while the process ran on
C10_Witness ==
    /\ Len(events) = 2
    /\ events[2] = Event(Undefined, "noUid")
    /\ lastCard.type = "TAG_UNKNOWN"
    /\ Get(TAG_KEY_MAPPING, lastCard.uid) # Undefined
    /\ events[1].st = "pressing"
    /\ running

\* C11: the builds share one set of action names: a response one build
\* accepts, the other accepts too, and an entry one build stored is
\* dispatched by whichever build taps the tag.
C11_OneRegistryForAllBuilds ==
    /\ \A e1, e2 \in 1..Len(events) :
          (events[e1].answer # Undefined /\ events[e1].answer = events[e2].answer)
          => (events[e1].st = "rejected" <=> events[e2].st = "rejected")
    /\ \A e \in 1..Len(events) :
          (events[e].st = "hit" /\ \E a \in 1..Len(events) :
                /\ a < e
                /\ events[a].st = "assigned"
                /\ events[a].uid = events[e].uid
                /\ events[a].result = "ok")
          => events[e].result = "ok"

\* C12: in the basic emulator every detected card, whatever it is and
\* whatever came before, makes one right-arrow key press attempt; a failed
\* press is reported on its event and the process handles the next card.
C12_EveryCardPressesRightArrowOnce ==
    /\ [](\A e \in 1..Len(events) :
            events[e].pressCalls = 1 /\ events[e].keyCode = RightArrowKeyCode)
    /\ [][Arrived =>
            /\ events'[Len(events')] = BasicEvent(lastCard')
            /\ SubSeq(events', 1, Len(events)) = events
            /\ running']_vars
    /\ [][\A e \in 1..Len(events) :
            (/\ e <= Len(events')
             /\ events[e].st = "pressing"
             /\ events'[e].st = "dispatchFailed")
            => /\ events'[e].error # ""
               /\ running'
               /\ \A o \in 1..Len(events) : o # e => events'[o] = events[o]]_vars

\* osascript failed for the first card, and a card of an unknown type that
\* came after it pressed the key
C12_Witness ==
    /\ Len(events) = 2
    /\ events[1].st = "dispatchFailed"
    /\ events[2].card.type = "TAG_UNKNOWN"
    /\ events[2].st = "dispatched"
    /\ events[2].keyCode = RightArrowKeyCode
    /\ running

TerminalStates == {"noUid", "crashed", "skipped", "rejected", "dispatched", "dispatchFailed"}

\* Event e of the running process has ended, or its process has
Ended(e) == e > Len(events) \/ events[e].st \in TerminalStates

\* How an event may have come to the terminal state it is in
TerminalStateIsEarned(e) ==
    LET ev == events[e]
        name == trim(toLowerCase(ev.answer))
    IN  /\ ev.st = "dispatched"
           => \/ ~ev.prompted /\ ev.key # Undefined
              \/ ev.prompted /\ name \in DeclaredNames /\ ev.key = name
        /\ ev.st = "skipped" => (ev.prompted /\ name = <<>>)
        /\ ev.st = "rejected" => (ev.prompted /\ name # <<>> /\ name \notin DeclaredNames)

\* C13: an event ends in one terminal state, which it keeps and which its
\* course accounts for; and when the operator answers and key presses
\* return, every event ends, also one that arrived while a prompt was open.
C13_EveryEventTerminates ==
    /\ [](\A e \in 1..Len(events) : TerminalStateIsEarned(e))
    /\ [][\A e \in 1..Len(events) :
            (events[e].st \in TerminalStates /\ e <= Len(events'))
            => events'[e] = events[e]]_vars
    /\ \A e \in 1..MaxEvents : [](e <= Len(events) => <>Ended(e))

\* The event whose "Tag detected with UID" lines (47-48) stand last above the
\* prompt on the operator's screen
LastPrompted ==
    CHOOSE e \in 1..Len(events) :
        /\ events[e].prompted
        /\ \A d \in 1..Len(events) : events[d].prompted => d <= e

\* C14: when prompts for unmapped tags overlap, every event waiting for a
\* response still has a question open, a response goes to the event of the
\* tag the operator was last prompted for, and what it assigns is stored
\* under and dispatched for that event's own tag.
C14_ResponseReachesItsOwnEvent ==
    /\ [](\A e \in 1..Len(events) : events[e].st = "awaiting" => questionCallback # 0)
    /\ [][\A e \in 1..MaxEvents :
            Answered(e)
            => /\ events[e].uid = events[LastPrompted].uid
               /\ \A t \in Tags \ {events[e].uid} :
                     Get(TAG_KEY_MAPPING', t) = Get(TAG_KEY_MAPPING, t)
               /\ events'[e].pressCalls = 1
                  => Get(TAG_KEY_MAPPING', events[e].uid) = events'[e].key]_vars

\* In this step the handler of event e received a response naming a declared action
AssignedValid(e) ==
    /\ Answered(e)
    /\ trim(toLowerCase(events'[e].answer)) \in DeclaredNames

SameLetter(a, b) ==
    \/ a = b
    \/ \E i \in 1..Len(UpperLetters) : {a, b} = {UpperLetters[i], LowerLetters[i]}

\* The line s is the name n up to letter case and surrounding white space
VariantOf(s, n) ==
    \E lo \in 0..Len(s) :
        /\ lo + Len(n) <= Len(s)
        /\ \A i \in 1..Len(s) :
              IF i > lo /\ i <= lo + Len(n)
              THEN SameLetter(s[i], n[i - lo])
              ELSE s[i] \in WhiteSpace

\* A stored action carries no upper-case letter and no white space at its ends
IsNormalized(v) ==
    /\ \A i \in 1..Len(v) : \A j \in 1..Len(UpperLetters) : v[i] # UpperLetters[j]
    /\ v # <<>> => (v[1] \notin WhiteSpace /\ v[Len(v)] \notin WhiteSpace)

\* C16: a response that is a declared name up to letter case and surrounding
\* white space is accepted and stored as that name; whatever a response
\* stores is in trimmed lower-case form, never the line as typed.
C16_ResponseIsNormalized ==
    [][\A e \in 1..MaxEvents :
          Answered(e)
          => /\ \A n \in DeclaredNames :
                   VariantOf(events'[e].answer, n)
                   => /\ events'[e].st \notin {"rejected", "skipped"}
                      /\ events'[e].key = n
                      /\ Get(TAG_KEY_MAPPING', events[e].uid) = n
                      /\ events'[e].saved = "ok" => Get(JSONparse(file'), events[e].uid) = n
             /\ events'[e].saved # "none"
                => IsNormalized(Get(TAG_KEY_MAPPING', events[e].uid))]_vars

C16_Witness ==
    \E e \in 1..Len(events) :
        /\ events[e].answer = <<" ", "R", "i", "g", "h", "t", " ">>
        /\ events[e].st = "dispatched"
        /\ events[e].saved = "ok"
        /\ file.kind = "object"
        /\ Get(JSONparse(file), events[e].uid) = <<"r", "i", "g", "h", "t">>

\* In this step the reader reported the removal of a card
Removed == lastCard # CardGone /\ lastCard' = CardGone

\* C17: no event calls pressKey more than once, and a card.off event calls
\* nothing: the table, the file, the events with their pressKey calls and
\* the open question are as before it.
C17_OnePressPerEventNoneOnRemoval ==
    /\ [](\A e \in 1..Len(events) : events[e].pressCalls <= 1)
    /\ [][Removed
          => /\ TAG_KEY_MAPPING' = TAG_KEY_MAPPING
             /\ file' = file
             /\ events' = events
             /\ questionCallback' = questionCallback]_vars

C17_Witness ==
    /\ lastCard = CardGone
    /\ Len(events) = 2
    /\ events[1].pressCalls = 1
    /\ events[1].st = "dispatched"
    /\ events[2].st = "awaiting"
    /\ questionCallback = 2

\* Every entry the mappings file holds is in the table with the same action
FileWithinTable ==
    file.kind = "object"
    => \A i \in 1..Len(file.props) :
          /\ TAG_KEY_MAPPING.kind = "object"
          /\ Get(TAG_KEY_MAPPING, file.props[i][1]) = Get(JSONparse(file), file.props[i][1])

\* In this step an assignment wrote the file
WroteFile == \E e \in 1..MaxEvents : Answered(e) /\ events'[e].saved = "ok"

\* C18 as stated: after the startup load and after every step the file's
\* entries are in the table, and they are the table's entries after an
\* assignment whose write succeeded.
C18_FileNeverAheadOfTable ==
    /\ []FileWithinTable
    /\ [][WroteFile => file' = JSONstringify(TAG_KEY_MAPPING')]_vars

\* C18, amended: in a process whose startup load could read (or had to
\* create) the mappings file, the file's entries are in the table at all
\* times; in every process, also one that could not read the file, file and
\* table are equal after an assignment whose write succeeded.
C18_FileWithinTableUnlessUnreadable ==
    /\ [](loadStatus # "unreadable" => FileWithinTable)
    /\ [][WroteFile => file' = JSONstringify(TAG_KEY_MAPPING')]_vars

C18_Witness ==
    /\ loadStatus = "loaded"
    /\ Len(events) = 2
    /\ events[1].saved = "failed"
    /\ events[2].saved = "ok"
    /\ Len(file.props) = 2
    /\ file = JSONstringify(TAG_KEY_MAPPING)

\* In this step the exec callback of call c ran
CallEnded(c) ==
    /\ c \in 1..Len(events)
    /\ events[c].st \in {"launched", "sent", "noScript"}
    /\ events'[c].st \in {"resolved", "failed"}

\* The PowerShell of every call found the script it was started on
FindsItsScript == \A c \in 1..Len(events) : events[c].st # "noScript"

\* What the PowerShell of a call sent is the code of that call's action
SendsOwnKey ==
    \A c \in 1..Len(events) :
        events[c].injected # "" => events[c].injected = events[c].code

\* C19: of overlapping calls of pressKey each finds its script and sends the
\* code of its own action, also when two calls got the same Date.now(), and
\* when a call's exec callback has run its script file is gone.
C19_EachCallSendsItsOwnKey ==
    /\ [](FindsItsScript /\ SendsOwnKey)
    /\ [][\A c \in 1..MaxEvents :
            CallEnded(c) => tempScripts'[events[c].stamp] = NoScript]_vars

====
